---- MODULE Spec2Model ----
(***************************************************************************)
(* Model of mortgage_dashboard.py: a Streamlit script that is re-run from  *)
(* top to bottom on every user interaction.  One render is the sequence    *)
(*   filter (lines 61-64) -> forecast alert (106-115) ->                   *)
(*   investment guidance (117-154),                                        *)
(* and the only state that survives a render is the st.cache_data entry of *)
(* get_live_rates and the loaded dataset.                                  *)
(*                                                                         *)
(* Percentages are integers in thousandths of a point: 5.0 is 5000.        *)
(***************************************************************************)
EXTENDS Integers, Sequences, FiniteSets, TLC

\* ---------------------------------------------------------------- bounds
MaxRows == 2
MaxDate == 3
MaxText == 3

Dates == 1..MaxDate
\* 10Y_Treasury_Yield cells of a numeric column: both sides of and exactly on
\* every threshold of the script (3.5, 4.0, 5.0).
Yields == {3000, 3500, 4000, 5000, 5500}
ColKinds == {"numeric", "text", "missing"}

\* ------------------------------------------------------- Python values
PyNone == [t |-> "None", v |-> 0]
PyFloat(x) == [t |-> "float", v |-> x]

\* what a call hands its caller: None, or a tuple of Python values
RetNone == [t |-> "None", elts |-> <<>>]
RetTuple(a, b) == [t |-> "tuple", elts |-> <<a, b>>]
NoCall == [t |-> "nocall", elts |-> <<>>]

\* Python's round(x, 2): to the nearest hundredth, ties to even
round2(x) ==
    LET q == x \div 10
        r == x % 10
    IN  10 * (q + (IF r > 5 \/ (r = 5 /\ q % 2 = 1) THEN 1 ELSE 0))

\* ------------------------------------------- the outside world of a fetch
\* The market-data query either delivers a series whose last close is `close`
\* or fails; `mortgage` is what the mortgage-rates page would yield at that
\* moment (a rate, or nothing usable).
NoQuery == [status |-> "none", close |-> 0, mortgage |-> PyNone]
LiveOutcomes ==
    { [status |-> "ok", close |-> c, mortgage |-> m] :
          c \in {4500}, m \in {PyFloat(6920), PyFloat(6000), PyNone} }
    \cup { [status |-> s, close |-> 0, mortgage |-> PyNone] :
          s \in {"ConnectionError", "IndexError"} }

\* ------------------------------------------------------------ messages
Fallback(e) == << "warning:Could not generate investment guidance.", e >>
ForecastMsgs == { "error:Forecasted 10Y Yield is above 5%.",
                  "warning:Forecasted 10Y Yield is between 4% and 5%.",
                  "success:Forecasted 10Y Yield is below 4%." }
SpreadMsgs == { "warning:Mortgage rates are elevated due to a higher-than-normal spread.",
                "success:Spread is within normal range." }
AlertMsgs == { "warning:10Y Yield is projected above 5%.",
               "success:10Y Yield is projected below 3.5%.",
               "info:Mortgage rates are expected to remain stable in the near term." }

VARIABLES
    data,           \* load_data(): the rows of the CSV, in file order
    colKind,        \* the 10Y_Treasury_Yield column: numeric, text, or missing
    date_range,     \* the slider's value <<lo, hi>>
    filtered_data,  \* lines 61-64
    pc,             \* where the script is: "filter", "alert", "guidance", "idle"
    cache,          \* the st.cache_data entry of get_live_rates
    out,            \* what the current render has displayed so far
    live,           \* what get_live_rates() handed the guidance block
    query,          \* the fetch outcome behind `live` (NoQuery if none was made)
    httpGets,       \* GETs to the mortgage-rates page made by the current render
    unit            \* the function call under unit test (SpecFetch only)

vars == << data, colKind, date_range, filtered_data, pc, cache, out, live,
           query, httpGets, unit >>

\* ------------------------------------------------------------- helpers
MaxOf(S) == CHOOSE x \in S : \A y \in S : y <= x
MinOf(S) == CHOOSE x \in S : \A y \in S : x <= y
DateSet(d) == { d[i].Date : i \in 1..Len(d) }

\* get_live_rates as line 40 reads, had it ended the success path: both values
\* are handed over.
get_live_rates_returning_pair(q) ==
    IF q.status = "ok"
    THEN [raised |-> "",
          ret |-> RetTuple(PyFloat(round2(q.close)), q.mortgage),
          shown |-> <<>>]
    ELSE [raised |-> "",
          ret |-> RetTuple(PyNone, PyNone),
          shown |-> << "warning:Error fetching live data" >>]

\* ---------------------------------------------------- get_live_rates
\* Lines 9-18.  The try body only assigns treasury_yield; the function then
\* ends, so a successful query returns None.  Any exception of the body is
\* an Exception, caught at line 16.
get_live_rates(q) ==
    IF q.status = "ok"
    THEN [raised |-> "", ret |-> RetNone, shown |-> <<>>]
    ELSE [raised |-> "",
          ret |-> RetTuple(PyNone, PyNone),
          shown |-> << "warning:Error fetching live data" >>]

\* the lower threshold of the other track (4.0) in place of 3.5
AlertOf_lower_threshold_4(last_yield) ==
    IF last_yield > 5000 THEN "warning:10Y Yield is projected above 5%."
    ELSE IF last_yield < 4000 THEN "success:10Y Yield is projected below 3.5%."
    ELSE "info:Mortgage rates are expected to remain stable in the near term."

\* ------------------------------------------------ forecast alert message
\* Lines 106-115.  The row is looked up in the whole dataset.
AlertOf(last_yield) ==
    IF last_yield > 5000 THEN "warning:10Y Yield is projected above 5%."
    ELSE IF last_yield < 3500 THEN "success:10Y Yield is projected below 3.5%."
    ELSE "info:Mortgage rates are expected to remain stable in the near term."

\* a bare `except: pass`: nothing displayed when the lookup or the
\* comparison fails
ForecastAlertOut_except_pass(d, col) ==
    IF col # "numeric" THEN <<>>
    ELSE LET mx == MaxOf(DateSet(d))
             at == SelectSeq(d, LAMBDA r : r.Date = mx)
         IN  << AlertOf(at[1].y) >>

ForecastAlertOut(d, col) ==
    IF col # "numeric"
    THEN \* KeyError (missing) or TypeError (str > float), bare except
         << "info:Forecast alerts will appear here once 10Y Treasury Yield is loaded." >>
    ELSE LET mx == MaxOf(DateSet(d))
             at == SelectSeq(d, LAMBDA r : r.Date = mx)
         IN  << AlertOf(at[1].y) >>

\* ------------------------------------------------- investment guidance
\* Lines 128-136
YieldGuidance(forecasted_yield) ==
    IF forecasted_yield > 5000
    THEN << "error:Forecasted 10Y Yield is above 5%.",
            "write:Mortgage rates may increase. Consider delaying unless urgent." >>
    ELSE IF forecasted_yield > 4000
    THEN << "warning:Forecasted 10Y Yield is between 4% and 5%.",
            "write:Rates are stable. Lock only if timing matters." >>
    ELSE << "success:Forecasted 10Y Yield is below 4%.",
            "write:Consider locking or refinancing now to capture lower rates." >>

\* Lines 144-148
SpreadGuidance(current_spread) ==
    IF current_spread > 2000
    THEN << "warning:Mortgage rates are elevated due to a higher-than-normal spread." >>
    ELSE << "success:Spread is within normal range." >>

\* Line 119: does forecast_window['10Y_Treasury_Yield'].iloc[-1] raise?
ForecastLookupError(fd, col) ==
    IF col = "missing" THEN "caption:KeyError 10Y_Treasury_Yield"
    ELSE IF fd = <<>> THEN "caption:IndexError single positional indexer is out-of-bounds"
    ELSE ""

\* a block that reads an absent live value as 0.0 instead of failing on it
GuidanceAfterFetch_none_as_zero(fd, col, r) ==
    IF r.raised # "" THEN Fallback(r.raised)
    ELSE IF r.ret.t # "tuple"
    THEN Fallback("caption:TypeError cannot unpack non-iterable NoneType object")
    ELSE IF col = "text"
    THEN << "subheader:Investment Guidance" >>
         \o Fallback("caption:TypeError '>' not supported between str and float")
    ELSE << "subheader:Investment Guidance" >>
         \o YieldGuidance(fd[Len(fd)].y)
         \o << "markdown:---", "markdown:current rates and spread" >>
         \o SpreadGuidance(round2(r.ret.elts[2].v - r.ret.elts[1].v))
         \o << "caption:Forecasted 10Y Yield" >>

\* a block that displays the subheader (line 125) before it fetches the
\* live rates (line 122)
GuidanceAfterFetch_subheader_first(fd, col, r) ==
    << "subheader:Investment Guidance" >>
    \o (IF r.raised # "" THEN Fallback(r.raised)
        ELSE IF r.ret.t # "tuple"
        THEN Fallback("caption:TypeError cannot unpack non-iterable NoneType object")
        ELSE IF r.ret.elts[1].t # "float" \/ r.ret.elts[2].t # "float"
        THEN Fallback("caption:TypeError unsupported operand type(s) for -")
        ELSE IF col = "text"
        THEN Fallback("caption:TypeError '>' not supported between str and float")
        ELSE YieldGuidance(fd[Len(fd)].y)
             \o << "markdown:---", "markdown:current rates and spread" >>
             \o SpreadGuidance(round2(r.ret.elts[2].v - r.ret.elts[1].v))
             \o << "caption:Forecasted 10Y Yield" >>)

\* Lines 122-154, given what get_live_rates() did (r).
GuidanceAfterFetch(fd, col, r) ==
    IF r.raised # "" THEN Fallback(r.raised)
    ELSE IF r.ret.t # "tuple"
    THEN Fallback("caption:TypeError cannot unpack non-iterable NoneType object")
    ELSE LET actual_10Y_yield == r.ret.elts[1]
             actual_mortgage_rate == r.ret.elts[2]
         IN  IF actual_10Y_yield.t # "float" \/ actual_mortgage_rate.t # "float"
             THEN Fallback("caption:TypeError unsupported operand type(s) for -")
             ELSE LET current_spread == round2(actual_mortgage_rate.v - actual_10Y_yield.v)
                  IN  IF col = "text"
                      THEN \* line 128 compares a str with a float
                           << "subheader:Investment Guidance" >>
                           \o Fallback("caption:TypeError '>' not supported between str and float")
                      ELSE << "subheader:Investment Guidance" >>
                           \o YieldGuidance(fd[Len(fd)].y)
                           \o << "markdown:---", "markdown:current rates and spread" >>
                           \o SpreadGuidance(current_spread)
                           \o << "caption:Forecasted 10Y Yield" >>

\* ---------------------------------------------- get_30yr_mortgage_rate
\* Text is a sequence of one-character strings.
Chars == {"6", "9", ".", "%", " "}
Digits == {"6", "9"}
DigitVal(c) == IF c = "6" THEN 6 ELSE 9

RECURSIVE Texts(_)
Texts(n) == IF n = 0 THEN { <<>> }
            ELSE Texts(n - 1) \cup { Append(t, c) : t \in { u \in Texts(n - 1) : Len(u) = n - 1 }, c \in Chars }

RECURSIVE lstrip(_)
lstrip(s) == IF s # <<>> /\ Head(s) = " " THEN lstrip(Tail(s)) ELSE s
RECURSIVE rstrip(_)
rstrip(s) == IF s # <<>> /\ s[Len(s)] = " " THEN rstrip(SubSeq(s, 1, Len(s) - 1)) ELSE s
\* str.strip()
strip(s) == rstrip(lstrip(s))
\* str.replace("%", "")
replace_percent(s) == SelectSeq(s, LAMBDA c : c # "%")

RECURSIVE DigitsValue(_)
DigitsValue(s) == IF s = <<>> THEN 0
                  ELSE 10 * DigitsValue(SubSeq(s, 1, Len(s) - 1)) + DigitVal(s[Len(s)])

\* float(s): surrounding whitespace is ignored; what is left must be digits
\* with at most one point and at least one digit.  The value is n / 10^e.
float_ok(s) ==
    LET t == strip(s)
    IN  /\ \A i \in 1..Len(t) : t[i] \in Digits \cup {"."}
        /\ Cardinality({ i \in 1..Len(t) : t[i] = "." }) <= 1
        /\ \E i \in 1..Len(t) : t[i] \in Digits
float_of(s) ==
    LET t == strip(s)
        dots == { i \in 1..Len(t) : t[i] = "." }
        e == IF dots = {} THEN 0 ELSE Len(t) - (CHOOSE i \in dots : TRUE)
    IN  [n |-> DigitsValue(SelectSeq(t, LAMBDA c : c # ".")), e |-> e]

\* What a GET of the mortgage-rates page can bring back.
NoPage == [http |-> "none", label |-> FALSE, next |-> FALSE, text |-> <<>>]
Pages ==
    { [http |-> "ConnectionError", label |-> FALSE, next |-> FALSE, text |-> <<>>],
      [http |-> "ok", label |-> FALSE, next |-> FALSE, text |-> <<>>],
      [http |-> "ok", label |-> TRUE, next |-> FALSE, text |-> <<>>] }
    \cup { [http |-> "ok", label |-> TRUE, next |-> TRUE, text |-> t] : t \in Texts(MaxText) }

\* Lines 25-31: the exception the try body raises on page p, "" if none
MortgageTryError(p) ==
    IF p.http # "ok" THEN "ConnectionError"
    ELSE IF ~p.label THEN "AttributeError"       \* soup.find(...) is None
    ELSE IF ~p.next THEN "AttributeError"        \* find_next("span") is None
    ELSE IF ~float_ok(replace_percent(strip(p.text))) THEN "ValueError"
    ELSE ""

\* an except clause that catches the parse error only
get_30yr_mortgage_rate_except_ValueError(p) ==
    IF MortgageTryError(p) = ""
    THEN [raised |-> "",
          ret |-> PyFloat(float_of(replace_percent(strip(p.text)))),
          shown |-> <<>>]
    ELSE IF MortgageTryError(p) = "ValueError"
    THEN [raised |-> "", ret |-> PyNone,
          shown |-> << "print:Error fetching mortgage rate" >>]
    ELSE [raised |-> MortgageTryError(p), ret |-> PyNone, shown |-> <<>>]

\* Lines 20-34.  Line 40 follows `return None` inside the except clause and
\* is never executed.
get_30yr_mortgage_rate(p) ==
    IF MortgageTryError(p) = ""
    THEN [raised |-> "",
          ret |-> PyFloat(float_of(replace_percent(strip(p.text)))),
          shown |-> <<>>]
    ELSE [raised |-> "", ret |-> PyNone,
          shown |-> << "print:Error fetching mortgage rate" >>]

\* ------------------------------------------------------------ the script
Rows(col) == IF col = "numeric" THEN [Date : Dates, y : Yields] ELSE [Date : Dates, y : {0}]
RECURSIVE Datasets(_, _)
Datasets(col, n) ==
    IF n = 1 THEN { << r >> : r \in Rows(col) }
    ELSE Datasets(col, n - 1)
         \cup { Append(d, r) : d \in { x \in Datasets(col, n - 1) : Len(x) = n - 1 },
                               r \in Rows(col) }

NoResult == [raised |-> "", ret |-> NoCall, shown |-> <<>>]
EmptyCache == [present |-> FALSE, r |-> NoResult, q |-> NoQuery]
NoUnit == [fn |-> "none", q |-> NoQuery, page |-> NoPage, done |-> FALSE, res |-> NoResult]

\* load_data() (lines 44-49) has run; the first render starts with the
\* slider on the whole range (line 58) and an empty cache.
Init ==
    /\ colKind \in ColKinds
    /\ data \in Datasets(colKind, MaxRows)
    /\ date_range = << MinOf(DateSet(data)), MaxOf(DateSet(data)) >>
    /\ filtered_data = <<>>
    /\ pc = "filter"
    /\ cache = EmptyCache
    /\ out = <<>>
    /\ live = NoCall
    /\ query = NoQuery
    /\ httpGets = 0
    /\ unit = NoUnit

\* A user interaction re-runs the script; the slider (lines 54-59) holds any
\* range within the dataset's first and last date.
Rerun(lo, hi) ==
    /\ pc = "idle"
    /\ lo <= hi
    /\ date_range' = << lo, hi >>
    /\ filtered_data' = <<>>
    /\ out' = <<>>
    /\ live' = NoCall
    /\ query' = NoQuery
    /\ httpGets' = 0
    /\ pc' = "filter"
    /\ UNCHANGED << data, colKind, cache, unit >>

\* Lines 61-64
FilterData ==
    /\ pc = "filter"
    /\ filtered_data' = SelectSeq(data, LAMBDA r : r.Date >= date_range[1] /\ r.Date <= date_range[2])
    /\ pc' = "alert"
    /\ UNCHANGED << data, colKind, date_range, cache, out, live, query, httpGets, unit >>

\* Lines 106-115
ForecastAlert ==
    /\ pc = "alert"
    /\ out' = out \o ForecastAlertOut(data, colKind)
    /\ pc' = "guidance"
    /\ UNCHANGED << data, colKind, date_range, filtered_data, cache, live, query, httpGets, unit >>

\* Lines 117-119 raise, 152-154: get_live_rates is not reached
GuidanceNoFetch ==
    /\ pc = "guidance"
    /\ ForecastLookupError(filtered_data, colKind) # ""
    /\ out' = out \o Fallback(ForecastLookupError(filtered_data, colKind))
    /\ pc' = "idle"
    /\ UNCHANGED << data, colKind, date_range, filtered_data, cache, live, query, httpGets, unit >>

\* Lines 117-154 with the cache of get_live_rates empty: the function runs
\* against the outside world q, and what it returned and displayed is stored.
GuidanceMiss(q) ==
    /\ pc = "guidance"
    /\ ForecastLookupError(filtered_data, colKind) = ""
    /\ ~cache.present
    /\ LET r == get_live_rates(q)
       IN  /\ cache' = IF r.raised = "" THEN [present |-> TRUE, r |-> r, q |-> q] ELSE cache
           /\ live' = IF r.raised = "" THEN r.ret ELSE NoCall
           /\ out' = out \o r.shown \o GuidanceAfterFetch(filtered_data, colKind, r)
    /\ query' = q
    /\ pc' = "idle"
    /\ UNCHANGED << data, colKind, date_range, filtered_data, httpGets, unit >>

\* Lines 117-154 with a cached entry: the stored return value is handed
\* over and the stored elements are replayed, without a query.
GuidanceHit ==
    /\ pc = "guidance"
    /\ ForecastLookupError(filtered_data, colKind) = ""
    /\ cache.present
    /\ live' = cache.r.ret
    /\ out' = out \o cache.r.shown \o GuidanceAfterFetch(filtered_data, colKind, cache.r)
    /\ query' = cache.q
    /\ pc' = "idle"
    /\ UNCHANGED << data, colKind, date_range, filtered_data, cache, httpGets, unit >>

\* Line 9: ttl=3600 has elapsed since the entry was stored
CacheExpire ==
    /\ cache.present
    /\ cache' = EmptyCache
    /\ UNCHANGED << data, colKind, date_range, filtered_data, pc, out, live, query, httpGets, unit >>

Next ==
    \/ \E lo \in MinOf(DateSet(data))..MaxOf(DateSet(data)),
          hi \in MinOf(DateSet(data))..MaxOf(DateSet(data)) : Rerun(lo, hi)
    \/ FilterData
    \/ ForecastAlert
    \/ GuidanceNoFetch
    \/ \E q \in LiveOutcomes : GuidanceMiss(q)
    \/ GuidanceHit
    \/ CacheExpire

Spec == Init /\ [][Next]_vars

\* ------------------------------------------------ the two fetchers alone
\* Each fetch function applied once to one state of the outside world.
InitFetch ==
    /\ colKind = "numeric"
    /\ data = << [Date |-> 1, y |-> 4000] >>
    /\ date_range = << 1, 1 >>
    /\ filtered_data = <<>>
    /\ pc = "unit"
    /\ cache = EmptyCache
    /\ out = <<>>
    /\ live = NoCall
    /\ query = NoQuery
    /\ httpGets = 0
    /\ unit \in { [fn |-> "get_live_rates", q |-> q, page |-> NoPage,
                    done |-> FALSE, res |-> NoResult] : q \in LiveOutcomes }
          \cup { [fn |-> "get_30yr_mortgage_rate", q |-> NoQuery, page |-> p,
                    done |-> FALSE, res |-> NoResult] : p \in Pages }

Call_get_live_rates ==
    /\ unit.fn = "get_live_rates"
    /\ ~unit.done
    /\ unit' = [unit EXCEPT !.done = TRUE, !.res = get_live_rates(unit.q)]
    /\ UNCHANGED << data, colKind, date_range, filtered_data, pc, cache, out, live,
                    query, httpGets >>

\* Line 25 issues the one GET of a call, whatever comes of it.
Call_get_30yr_mortgage_rate ==
    /\ unit.fn = "get_30yr_mortgage_rate"
    /\ ~unit.done
    /\ unit' = [unit EXCEPT !.done = TRUE, !.res = get_30yr_mortgage_rate(unit.page)]
    /\ httpGets' = httpGets + 1
    /\ UNCHANGED << data, colKind, date_range, filtered_data, pc, cache, out, live, query >>

NextFetch == Call_get_live_rates \/ Call_get_30yr_mortgage_rate

SpecFetch == InitFetch /\ [][NextFetch]_vars

\* =================================================================
\* Properties
\* =================================================================
Has(s, m) == \E i \in 1..Len(s) : s[i] = m
Count(s, M) == Cardinality({ i \in 1..Len(s) : s[i] \in M })
FallbackWarning == "warning:Could not generate investment guidance."
Subheader == "subheader:Investment Guidance"
AlertPlaceholder == "info:Forecast alerts will appear here once 10Y Treasury Yield is loaded."
IsCaption(m) == m \in { "caption:KeyError 10Y_Treasury_Yield",
                        "caption:IndexError single positional indexer is out-of-bounds",
                        "caption:TypeError cannot unpack non-iterable NoneType object",
                        "caption:TypeError unsupported operand type(s) for -",
                        "caption:TypeError '>' not supported between str and float" }
\* the render ended in the fallback: the warning, then the error text, last
EndsInFallback ==
    /\ Len(out) >= 2
    /\ out[Len(out) - 1] = FallbackWarning
    /\ IsCaption(out[Len(out)])
    /\ Count(out, {FallbackWarning}) = 1
NoGuidanceShown ==
    /\ ~Has(out, Subheader)
    /\ Count(out, ForecastMsgs \cup SpreadMsgs) = 0
TwoFloats(ret) ==
    /\ ret.t = "tuple"
    /\ ret.elts[1].t = "float"
    /\ ret.elts[2].t = "float"
RenderDone == pc = "idle"
\* the guidance block got as far as calling get_live_rates (line 122)
Fetched == query.status # "none"
\* line 119 found a forecasted yield
ForecastFound == colKind = "numeric" /\ filtered_data # <<>>
forecasted_yield == filtered_data[Len(filtered_data)].y
\* the row of the whole dataset with the greatest Date (the first, if several)
last_yield ==
    LET mx == MaxOf(DateSet(data))
        i0 == MinOf({ i \in 1..Len(data) : data[i].Date = mx })
    IN  data[i0].y

\* C1: a render whose live-rate fetch handed over an absent current_yield or
\* current_mortgage_rate ends in the one fallback output (warning, then the
\* error text) and displays no subheader, forecast-yield or spread message.
C1_AbsentLiveValueFallsBack ==
    (RenderDone /\ live.t = "tuple"
        /\ (live.elts[1].t = "None" \/ live.elts[2].t = "None"))
    => (EndsInFallback /\ NoGuidanceShown)
C1_Witness ==
    /\ RenderDone
    /\ live = RetTuple(PyNone, PyNone)
    /\ query.status = "IndexError"
    /\ EndsInFallback

\* C2: get_live_rates always hands its caller a pair whose components are a
\* number or absent, and after a successful query the pair is (the last
\* close, the mortgage-rate fetch's result).
C2_ReturnsPair ==
    (RenderDone /\ Fetched)
    => /\ live.t = "tuple"
       /\ Len(live.elts) = 2
       /\ \A i \in 1..2 : live.elts[i].t \in {"float", "None"}
       /\ (query.status = "ok"
            => /\ live.elts[1].t = "float"
               /\ live.elts[1].v \in { query.close, round2(query.close) }
               /\ live.elts[2] = query.mortgage)

\* C3: with a forecasted yield found and both live sources delivering, the
\* render shows exactly one forecast message: delay above 5.0, stable in
\* (4.0, 5.0], lock now at or below 4.0.
C3_ForecastBands ==
    (RenderDone /\ ForecastFound /\ query.status = "ok" /\ query.mortgage.t = "float")
    => /\ Count(out, ForecastMsgs) = 1
       /\ (forecasted_yield > 5000
            <=> Has(out, "error:Forecasted 10Y Yield is above 5%."))
       /\ ((forecasted_yield > 4000 /\ forecasted_yield <= 5000)
            <=> Has(out, "warning:Forecasted 10Y Yield is between 4% and 5%."))
       /\ (forecasted_yield <= 4000
            <=> Has(out, "success:Forecasted 10Y Yield is below 4%."))

\* C4: with both live values present the render shows the elevated message
\* if round(mortgage - yield, 2) > 2.0 and the normal message otherwise.
C4_SpreadMessage ==
    (RenderDone /\ ForecastFound /\ query.status = "ok" /\ query.mortgage.t = "float")
    => LET spread == round2(query.mortgage.v - query.close)
       IN  /\ Count(out, SpreadMsgs) = 1
           /\ (spread > 2000
                <=> Has(out, "warning:Mortgage rates are elevated due to a higher-than-normal spread."))

\* C5: once the alert step has run on a numeric column, exactly one alert
\* message is shown, chosen by the yield of the max-Date row of the whole
\* dataset: warning above 5.0, success below 3.5, neutral in [3.5, 5.0].
C5_HistoricalThreshold ==
    (pc \in {"guidance", "idle"} /\ colKind = "numeric")
    => /\ Count(out, AlertMsgs) = 1
       /\ out[1] \in AlertMsgs
       /\ (last_yield > 5000 <=> out[1] = "warning:10Y Yield is projected above 5%.")
       /\ (last_yield < 3500 <=> out[1] = "success:10Y Yield is projected below 3.5%.")
       /\ ((last_yield >= 3500 /\ last_yield <= 5000)
            <=> out[1] = "info:Mortgage rates are expected to remain stable in the near term.")
       /\ (last_yield = 5500 => out[1] = "warning:10Y Yield is projected above 5%.")
       /\ (last_yield = 3000 => out[1] = "success:10Y Yield is projected below 3.5%.")
       /\ (last_yield \in {3500, 4000, 5000}
            => out[1] = "info:Mortgage rates are expected to remain stable in the near term.")
\* the filter leaves out the max-Date row, and the two rows classify apart
C5_Witness ==
    /\ RenderDone
    /\ ForecastFound
    /\ forecasted_yield = 5500
    /\ last_yield = 3500
    /\ out[1] = "info:Mortgage rates are expected to remain stable in the near term."

\* C6 as stated: every render shows the historical message and, when a
\* forecasted yield exists, a forecast message, whatever the live fetch did.
C6_TracksIndependent ==
    RenderDone
    => /\ Count(out, AlertMsgs \cup {AlertPlaceholder}) = 1
       /\ (ForecastFound => Count(out, ForecastMsgs) = 1)
\* C6 amended: the historical track's one message is shown first in every
\* render, whatever the live fetch and the guidance block do; the forecast
\* and spread messages are shown only when the block holds two numeric live
\* values, and without them the render ends in the fallback.
C6_Amended ==
    /\ (pc \in {"guidance", "idle"}
         => /\ Count(out, AlertMsgs \cup {AlertPlaceholder}) = 1
            /\ out[1] \in AlertMsgs \cup {AlertPlaceholder})
    /\ (Count(out, ForecastMsgs \cup SpreadMsgs) > 0 => TwoFloats(live))
    /\ (RenderDone /\ ~TwoFloats(live) => EndsInFallback /\ NoGuidanceShown)
C6_Witness ==
    /\ RenderDone
    /\ colKind = "text"
    /\ out[1] = AlertPlaceholder
    /\ query.status = "ok"
    /\ EndsInFallback

\* C7: a render in which the guidance block raised (no column, no filtered
\* row, live values that cannot be unpacked or subtracted) ends in the
\* fallback warning and the error text, with no subheader and no forecast
\* or spread message next to it.
GuidanceRaised ==
    \/ ForecastLookupError(filtered_data, colKind) # ""
    \/ (Fetched /\ ~TwoFloats(live))
    \/ (Fetched /\ colKind = "text")
C7_NoPartialOutput ==
    /\ (RenderDone /\ GuidanceRaised => EndsInFallback)
    /\ (Has(out, FallbackWarning) => NoGuidanceShown)
C7_Witness ==
    /\ RenderDone
    /\ colKind = "numeric"
    /\ filtered_data = <<>>
    /\ ~Fetched
    /\ out[Len(out)] = "caption:IndexError single positional indexer is out-of-bounds"
    /\ EndsInFallback

\* C8: neither fetcher raises; a failed market query gives (None, None) and
\* a warning, a failed page fetch (connection, label or following span not
\* found, text that is no number) gives None and a printed diagnostic.
PageFails(p) ==
    \/ p.http # "ok"
    \/ ~p.label
    \/ ~p.next
    \/ ~float_ok(replace_percent(strip(p.text)))
C8_FetchersNeverRaise ==
    unit.done
    => /\ unit.res.raised = ""
       /\ (unit.fn = "get_live_rates" /\ unit.q.status # "ok"
            => /\ unit.res.ret = RetTuple(PyNone, PyNone)
               /\ Has(unit.res.shown, "warning:Error fetching live data"))
       /\ (unit.fn = "get_30yr_mortgage_rate" /\ PageFails(unit.page)
            => /\ unit.res.ret = PyNone
               /\ Has(unit.res.shown, "print:Error fetching mortgage rate"))
       /\ (unit.fn = "get_30yr_mortgage_rate"
            /\ unit.page.label /\ unit.page.next
            /\ unit.page.text \in { << "%" >>, << "6", " ", "9" >>, << ".", "%" >>, << "6", ".", "." >> }
            => unit.res.ret = PyNone)
C8_Witness ==
    /\ unit.done
    /\ unit.fn = "get_30yr_mortgage_rate"
    /\ unit.page.http = "ok"
    /\ unit.page.label
    /\ ~unit.page.next
    /\ unit.res.ret = PyNone
    /\ unit.res.shown = << "print:Error fetching mortgage rate" >>

\* C9: every finished render has made exactly one GET to the mortgage page.
C9_OneGetPerRender ==
    RenderDone => httpGets = 1

\* C10: whatever the market query did, and whether its result came from the
\* cache or not, the guidance block never holds two numeric live values,
\* ends in the fallback, and no forecast or spread message is ever shown.
C10_GuidanceUnreachable ==
    /\ Count(out, ForecastMsgs \cup SpreadMsgs) = 0
    /\ ~Has(out, Subheader)
    /\ ~TwoFloats(live)
    /\ (RenderDone => EndsInFallback)
\* both sources deliver, the result is served from the cache, and still the
\* render ends in the fallback
C10_Witness ==
    /\ RenderDone
    /\ ForecastFound
    /\ query.status = "ok"
    /\ query.mortgage.t = "float"
    /\ cache.present
    /\ live = RetNone
    /\ out[Len(out)] = "caption:TypeError cannot unpack non-iterable NoneType object"

====
